---------------------------- MODULE Spec2Model ----------------------------
(***************************************************************************)
(* Model of custom_components/amshan/metercon.py: the MQTT subscription    *)
(* manager (async_setup_meter_mqtt_subscriptions, message_received,        *)
(* unsubscribe_mqtt) and the payload pipeline (get_meter_message,          *)
(* _try_read_meter_message, _is_hex_string, _hex_payload_to_binary).       *)
(*                                                                         *)
(* Payloads are sequences of byte values 0..255.  The Python built-ins the *)
(* code calls (int(bytes, 16), bytes.fromhex, json.loads) are modelled by  *)
(* what they accept and return.  The han library (hdlc.HdlcFrameReader,    *)
(* dlde.DataReadout) is outside the repository; it is modelled at its      *)
(* boundary by a reduced frame format: an HDLC frame is                    *)
(*    FLAG  LEN  info...  CHK  FLAG                                        *)
(* where LEN is the number of bytes between the flags and CHK the sum of   *)
(* the bytes before it modulo 256, and a P1 readout is                     *)
(*    '/'  data...  '!'  CHK.                                              *)
(***************************************************************************)
EXTENDS Integers, Sequences, FiniteSets, TLC

VARIABLES
    pc,          \* position of the message_received callback
    payload,     \* mqtt_message.payload of the callback being run
    cur,         \* argument of the active _try_read_meter_message call
    depth,       \* number of recursive _try_read_meter_message calls made
    trace,       \* strategies applied so far by _try_read_meter_message
    message,     \* value returned by _try_read_meter_message
    result,      \* value returned by get_meter_message
    exc,         \* exception that left the callback ("none" if none)
    hexcall,     \* argument and result of the latest _is_hex_string call
    measure_queue,   \* the asyncio.Queue the callback puts messages on
    history,     \* per finished callback: payload, result, exception
    todo,        \* topics async_setup_meter_mqtt_subscriptions has yet to subscribe
    subscribed,  \* topics with a live subscription in the MQTT client
    unsubscibers,    \* the list built by async_setup_meter_mqtt_subscriptions
    handle,      \* TRUE once unsubscribe_mqtt has been returned to the caller
    unsub_calls, \* per topic: how often its unsubscribe callable was invoked
    handle_calls,    \* how often unsubscribe_mqtt was invoked
    inflight,    \* messages the client has dispatched, callback not yet run
    published    \* number of messages dispatched so far

vars == <<pc, payload, cur, depth, trace, message, result, exc, hexcall,
          measure_queue, history, todo, subscribed, unsubscibers, handle,
          unsub_calls, handle_calls, inflight, published>>

-----------------------------------------------------------------------------
(* Bounds of the model. *)

\* longest payload enumerated exhaustively over Alphabet
MaxLen == 4
\* longest information field of the constructed HDLC frames and P1 blocks
MaxInfo == 1
\* number of MQTT messages dispatched in one behaviour
MaxPublished == 2
\* number of invocations of the teardown handle in one behaviour
MaxTeardowns == 2

-----------------------------------------------------------------------------
(* Bytes. *)

FLAG_SEQUENCE == 126
SLASH == 47
BANG == 33
PLUS == 43
MINUS == 45
SPACE == 32
UNDERSCORE == 95
ZERO == 48
THREE == 51
LBRACE == 123
RBRACE == 125
QUOTE == 34
COLON == 58
BACKSLASH == 92
LOWER_X == 120
UPPER_X == 88

\* bytes the exhaustively enumerated payloads are made of (2 is a byte that
\* is no ASCII text: the LEN and CHK of the shortest frame)
Alphabet == {2, SPACE, PLUS, SLASH, THREE, LBRACE, RBRACE, FLAG_SEQUENCE}

SeqsUpTo(S, n) == UNION {[1..k -> S] : k \in 0..n}

RECURSIVE Sum(_)
Sum(s) == IF s = <<>> THEN 0 ELSE s[1] + Sum(Tail(s))

StartsWith(s, b) == Len(s) >= 1 /\ s[1] = b

IsHexDigit(b) == b \in (48..57) \cup (65..70) \cup (97..102)

HexVal(b) == IF b \in 48..57 THEN b - 48
             ELSE IF b \in 65..70 THEN b - 55
             ELSE b - 87

HexDigitLower(v) == IF v < 10 THEN 48 + v ELSE 87 + v
HexDigitUpper(v) == IF v < 10 THEN 48 + v ELSE 55 + v

RECURSIVE HexLower(_)
\* bytes.hex(): two lower-case hex digits per byte
HexLower(s) ==
    IF s = <<>> THEN <<>>
    ELSE <<HexDigitLower(s[1] \div 16), HexDigitLower(s[1] % 16)>> \o HexLower(Tail(s))

RECURSIVE HexUpper(_)
HexUpper(s) ==
    IF s = <<>> THEN <<>>
    ELSE <<HexDigitUpper(s[1] \div 16), HexDigitUpper(s[1] % 16)>> \o HexUpper(Tail(s))

\* Py_ISSPACE
PySpace == {9, 10, 11, 12, 13, 32}

\* JSON whitespace
JsonSpace == {9, 10, 13, 32}

\* s without its leading and trailing bytes that are in ws
Strip(s, ws) ==
    LET keep == {i \in 1..Len(s) : s[i] \notin ws}
    IN  IF keep = {} THEN <<>>
        ELSE LET lo == CHOOSE i \in keep : \A j \in keep : i <= j
                 hi == CHOOSE i \in keep : \A j \in keep : i >= j
             IN  SubSeq(s, lo, hi)

-----------------------------------------------------------------------------
(* Python built-ins called by the code. *)

\* int(payload, 16) on bytes returns (TRUE) or raises ValueError (FALSE):
\* surrounding whitespace, one sign, an optional 0x/0X prefix (one underscore
\* may follow it), then hex digits with single underscores between them.
IntBase16Parses(p) ==
    LET s1 == Strip(p, PySpace)
        s2 == IF s1 # <<>> /\ s1[1] \in {PLUS, MINUS} THEN Tail(s1) ELSE s1
        prefixed == Len(s2) >= 2 /\ s2[1] = ZERO /\ s2[2] \in {LOWER_X, UPPER_X}
        s3 == IF prefixed THEN SubSeq(s2, 3, Len(s2)) ELSE s2
        s4 == IF prefixed /\ s3 # <<>> /\ s3[1] = UNDERSCORE THEN Tail(s3) ELSE s3
    IN  /\ s4 # <<>>
        /\ s4[1] # UNDERSCORE
        /\ s4[Len(s4)] # UNDERSCORE
        /\ \A i \in 1..Len(s4) : IsHexDigit(s4[i]) \/ s4[i] = UNDERSCORE
        /\ \A i \in 1..(Len(s4) - 1) : ~(s4[i] = UNDERSCORE /\ s4[i + 1] = UNDERSCORE)

RECURSIVE FromHexAt(_, _)
\* bytes.fromhex(s) from position i on: whitespace is skipped between bytes,
\* the two digits of a byte are adjacent; ok = FALSE is ValueError.
FromHexAt(s, i) ==
    IF i > Len(s) THEN [ok |-> TRUE, bytes |-> <<>>]
    ELSE IF s[i] \in PySpace THEN FromHexAt(s, i + 1)
    ELSE IF i + 1 <= Len(s) /\ IsHexDigit(s[i]) /\ IsHexDigit(s[i + 1])
         THEN LET r == FromHexAt(s, i + 2)
              IN  [ok |-> r.ok,
                   bytes |-> <<16 * HexVal(s[i]) + HexVal(s[i + 1])>> \o r.bytes]
    ELSE [ok |-> FALSE, bytes |-> <<>>]

\* an integer literal: digits, no leading zero
IsJsonInt(s) ==
    /\ s # <<>>
    /\ \A i \in 1..Len(s) : s[i] \in 48..57
    /\ (Len(s) > 1 => s[1] # ZERO)

\* "key" : integer
IsJsonMember(m) ==
    /\ Len(m) >= 2
    /\ m[1] = QUOTE
    /\ \E j \in 2..Len(m) :
          /\ m[j] = QUOTE
          /\ \A k \in 2..(j - 1) : m[k] \in 32..126 /\ m[k] \notin {QUOTE, BACKSLASH}
          /\ LET rest == Strip(SubSeq(m, j + 1, Len(m)), JsonSpace)
             IN  /\ StartsWith(rest, COLON)
                 /\ IsJsonInt(Strip(Tail(rest), JsonSpace))

\* isinstance(json.loads(payload), dict), for objects with no member or
\* with one "key": integer member (the JSON objects among the payloads of
\* this model); FALSE also stands for json.loads raising ValueError.
JsonLoadsIsDict(p) ==
    LET s == Strip(p, JsonSpace)
    IN  /\ Len(s) >= 2
        /\ s[1] = LBRACE
        /\ s[Len(s)] = RBRACE
        /\ LET inner == Strip(SubSeq(s, 2, Len(s) - 1), JsonSpace)
           IN  inner = <<>> \/ IsJsonMember(inner)

-----------------------------------------------------------------------------
(* Meter messages (han.common.MeterMessageBase).  One record shape for all   *)
(* kinds; has_payload = FALSE stands for payload is None.                    *)

None == [type |-> "None", bytes |-> <<>>, is_valid |-> FALSE,
         has_payload |-> FALSE, payload |-> <<>>]

\* han.common.DlmsMessage(payload)
DlmsMessage(p) == [type |-> "DLMS", bytes |-> p, is_valid |-> TRUE,
                   has_payload |-> TRUE, payload |-> p]

\* checksum of the reduced frame formats
Checksum(s) == Sum(s) % 256

-----------------------------------------------------------------------------
(* han.dlde.DataReadout, reduced: '/' data... '!' CHK.                       *)

\* the constructor returns (TRUE) or raises ValueError (FALSE): the block
\* starts with '/' and has the end marker '!' before its checksum
DataReadoutParses(p) ==
    /\ Len(p) >= 3
    /\ p[1] = SLASH
    /\ p[Len(p) - 1] = BANG

\* the readout object; is_valid compares the checksum read with the one
\* calculated over '/' .. '!'
DataReadout(p) ==
    [type |-> "P1", bytes |-> p,
     is_valid |-> p[Len(p)] = Checksum(SubSeq(p, 1, Len(p) - 1)),
     has_payload |-> TRUE, payload |-> SubSeq(p, 2, Len(p) - 2)]

-----------------------------------------------------------------------------
(* han.hdlc.HdlcFrameReader(use_octet_stuffing=False,                        *)
(* use_abort_sequence=False), reduced: content is LEN info... CHK.           *)

\* the frame built from the bytes between two flags: valid when it has the
\* length its header states and a good checksum; its payload is the
\* information field, None when that is empty
HdlcFrame(content) ==
    [type |-> "HDLC", bytes |-> content,
     is_valid |-> /\ Len(content) >= 2
                  /\ content[1] = Len(content)
                  /\ content[Len(content)] =
                        Checksum(SubSeq(content, 1, Len(content) - 1)),
     has_payload |-> Len(content) >= 3,
     payload |-> IF Len(content) >= 3 THEN SubSeq(content, 2, Len(content) - 1)
                 ELSE <<>>]

\* a new reader is in hunt mode: it skips bytes until a flag
HdlcFrameReader == [in_frame |-> FALSE, content |-> <<>>]

RECURSIVE ReadAt(_, _, _, _)
\* read(data) from position i on.  Without octet stuffing a flag inside a
\* frame shorter than its header states is data; otherwise a flag after at
\* least one byte ends the frame (valid or not) and starts the next.
ReadAt(reader, data, i, frames) ==
    IF i > Len(data) THEN [reader |-> reader, frames |-> frames]
    ELSE IF data[i] = FLAG_SEQUENCE
    THEN IF ~reader.in_frame \/ reader.content = <<>>
         THEN ReadAt([in_frame |-> TRUE, content |-> <<>>], data, i + 1, frames)
         ELSE IF Len(reader.content) < reader.content[1]
         THEN ReadAt([reader EXCEPT !.content = Append(@, data[i])], data, i + 1, frames)
         ELSE ReadAt([in_frame |-> TRUE, content |-> <<>>], data, i + 1,
                     Append(frames, HdlcFrame(reader.content)))
    ELSE IF reader.in_frame
         THEN ReadAt([reader EXCEPT !.content = Append(@, data[i])], data, i + 1, frames)
         ELSE ReadAt(reader, data, i + 1, frames)

\* frame_reader.read(data): the reader afterwards and the frames completed
Read(reader, data) == ReadAt(reader, data, 1, <<>>)

-----------------------------------------------------------------------------
(* The hex codec of metercon.py.                                             *)

\* _is_hex_string, written with the except and else branches exchanged
_is_hex_string_swapped(p) ==
    IF Len(p) % 2 = 0 THEN ~IntBase16Parses(p) ELSE FALSE

\* _is_hex_string(payload): even length and int(payload, 16) does not raise
_is_hex_string(p) ==
    IF Len(p) % 2 = 0 THEN IntBase16Parses(p) ELSE FALSE

\* _hex_payload_to_binary, written without the call of bytes.fromhex
_hex_payload_to_binary_undecoded(p) ==
    [ok |-> TRUE, bytes |-> p]

\* _hex_payload_to_binary(payload) for bytes: bytes.fromhex of the decoded
\* text; ok = FALSE is the ValueError of decode("utf8") or of fromhex
_hex_payload_to_binary(p) ==
    IF \E i \in 1..Len(p) : p[i] > 127 THEN [ok |-> FALSE, bytes |-> <<>>]
    ELSE FromHexAt(p, 1)

-----------------------------------------------------------------------------
(* Inputs. *)

Topics == {"a", "b"}

\* information fields of the constructed frames and blocks
Infos == SeqsUpTo({2, THREE}, MaxInfo)

\* FLAG LEN info CHK FLAG with the right length and checksum
MakeFrame(info) ==
    LET head == <<Len(info) + 2>> \o info
    IN  <<FLAG_SEQUENCE>> \o head \o <<Checksum(head)>> \o <<FLAG_SEQUENCE>>

\* s with the byte at position i replaced by another one
Corrupt(s, i) == [s EXCEPT ![i] = (s[i] + 1) % 256]

\* '/' data '!' CHK with the right checksum
MakeP1(data) ==
    LET head == <<SLASH>> \o data \o <<BANG>>
    IN  head \o <<Checksum(head)>>

ValidFrames == {MakeFrame(info) : info \in Infos}

\* a valid frame with its checksum byte corrupted
BadChecksumFrames == {Corrupt(f, Len(f) - 1) : f \in ValidFrames}

\* a valid frame followed by another frame, valid or not
TwoFrames == {f \o g : f \in ValidFrames, g \in ValidFrames \cup BadChecksumFrames}

ValidP1 == {MakeP1(data) : data \in Infos}

\* a valid P1 block with one byte after the '/' corrupted
CorruptP1 == UNION {{Corrupt(b, i) : i \in 2..Len(b)} : b \in ValidP1}

\* {"3":3}, 0x33, 3_33
Texts == {<<LBRACE, QUOTE, THREE, QUOTE, COLON, THREE, RBRACE>>,
          <<ZERO, LOWER_X, THREE, THREE>>,
          <<THREE, UNDERSCORE, THREE, THREE>>}

Framed == ValidFrames \cup BadChecksumFrames \cup TwoFrames \cup ValidP1 \cup CorruptP1

\* the payloads classified: every byte string over Alphabet up to MaxLen,
\* the constructed frames and blocks, and the hex strings of all of them
Payloads ==
    SeqsUpTo(Alphabet, MaxLen) \cup Framed \cup Texts
        \cup {HexLower(f) : f \in Framed} \cup {HexUpper(f) : f \in Framed}

\* the payloads published to the subscribed topics: a valid frame, its hex
\* string, the frame with a bad checksum, unframed bytes, and +3
PublishedPayloads ==
    {MakeFrame(<<THREE>>), HexLower(MakeFrame(<<THREE>>)),
     Corrupt(MakeFrame(<<THREE>>), 4), <<THREE>>, <<PLUS, THREE>>}

-----------------------------------------------------------------------------
(* State. *)

NoCall == [made |-> FALSE, arg |-> <<>>, ret |-> FALSE]

\* the callback's own variables before it runs on payload p
CallbackStart(p) ==
    /\ payload' = p
    /\ cur' = p
    /\ depth' = 0
    /\ trace' = <<>>
    /\ message' = None
    /\ result' = None
    /\ exc' = "none"
    /\ hexcall' = NoCall

subsvars == <<todo, subscribed, unsubscibers, handle, unsub_calls, handle_calls,
              inflight, published>>

callvars == <<payload, cur, depth, trace, message, result, exc, hexcall>>

\* no subscription yet, no callback run, the queue empty
Init ==
    /\ pc = "idle"
    /\ payload = <<>>
    /\ cur = <<>>
    /\ depth = 0
    /\ trace = <<>>
    /\ message = None
    /\ result = None
    /\ exc = "none"
    /\ hexcall = NoCall
    /\ measure_queue = <<>>
    /\ history = <<>>
    /\ todo = Topics
    /\ subscribed = {}
    /\ unsubscibers = <<>>
    /\ handle = FALSE
    /\ unsub_calls = [t \in Topics |-> 0]
    /\ handle_calls = 0
    /\ inflight = <<>>
    /\ published = 0

\* the callback entered with one payload of Payloads, all topics subscribed
InitClassify ==
    /\ pc = "p1"
    /\ payload \in Payloads
    /\ cur = payload
    /\ depth = 0
    /\ trace = <<>>
    /\ message = None
    /\ result = None
    /\ exc = "none"
    /\ hexcall = NoCall
    /\ measure_queue = <<>>
    /\ history = <<>>
    /\ todo = {}
    /\ subscribed = Topics
    /\ unsubscibers = <<"a", "b">>
    /\ handle = TRUE
    /\ unsub_calls = [t \in Topics |-> 0]
    /\ handle_calls = 0
    /\ inflight = <<>>
    /\ published = 1

-----------------------------------------------------------------------------
(* _try_read_meter_message(cur), lines 224-252. *)

\* entry of trace: a strategy applied to bytes.  lead and trail tell whether
\* the synthetic flags were fed, first is what read(payload) returned and
\* frames the list the frame is taken from.
Step(name, bytes, ok, lead, trail, first, frames) ==
    [step |-> name, bytes |-> bytes, ok |-> ok, lead |-> lead, trail |-> trail,
     first |-> first, frames |-> frames]

\* the callback ends: its outcome is recorded
Finish(res, e) ==
    /\ pc' = "idle"
    /\ history' = Append(history, [payload |-> payload, result |-> res, exc |-> e,
                                   teardowns |-> handle_calls])

\* lines 226-230: a payload that starts with '/' is tried as P1 readout; a
\* ValueError of the constructor is logged and the HDLC attempt follows
TryP1 ==
    /\ pc = "p1"
    /\ IF StartsWith(cur, SLASH)
       THEN /\ trace' = Append(trace, Step("p1", cur, DataReadoutParses(cur),
                                          FALSE, FALSE, <<>>, <<>>))
            /\ IF DataReadoutParses(cur)
               THEN message' = DataReadout(cur) /\ pc' = "gate"
               ELSE message' = message /\ pc' = "hdlc"
       ELSE /\ trace' = trace
            /\ message' = message
            /\ pc' = "hdlc"
    /\ UNCHANGED <<payload, cur, depth, result, exc, hexcall, measure_queue,
                   history, subsvars>>

\* frames[-1], the slip of taking the last frame
LastFrame(frames) == frames[Len(frames)]

\* line 247: frames[0]
FirstFrame(frames) == frames[1]

\* lines 232-247: a new reader is fed a flag unless the payload starts with
\* one, then the payload, then a flag if no frame came out; the first frame
\* is returned
TryHdlc ==
    /\ pc = "hdlc"
    /\ LET lead   == ~StartsWith(cur, FLAG_SEQUENCE)
           r0     == IF lead THEN Read(HdlcFrameReader, <<FLAG_SEQUENCE>>).reader
                     ELSE HdlcFrameReader
           r1     == Read(r0, cur)
           trail  == Len(r1.frames) = 0
           frames == IF trail THEN Read(r1.reader, <<FLAG_SEQUENCE>>).frames
                     ELSE r1.frames
       IN  /\ trace' = Append(trace, Step("hdlc", cur, Len(frames) > 0, lead, trail,
                                          r1.frames, frames))
           /\ IF Len(frames) > 0
              THEN message' = FirstFrame(frames) /\ pc' = "gate"
              ELSE message' = message /\ pc' = "hex"
    /\ UNCHANGED <<payload, cur, depth, result, exc, hexcall, measure_queue,
                   history, subsvars>>

\* lines 249-252: without a frame, a payload that is no hex string gives
\* None; a hex string is decoded and classified again.  A ValueError of the
\* decoding leaves _try_read_meter_message, get_meter_message (line 152 is
\* in no try block) and message_received.
TryHex ==
    /\ pc = "hex"
    /\ hexcall' = [made |-> TRUE, arg |-> cur, ret |-> _is_hex_string(cur)]
    /\ trace' = Append(trace, Step("hex", cur, _is_hex_string(cur), FALSE, FALSE,
                                   <<>>, <<>>))
    /\ IF ~_is_hex_string(cur)
       THEN /\ message' = None
            /\ pc' = "gate"
            /\ UNCHANGED <<cur, depth, exc, history>>
       ELSE LET decoded == _hex_payload_to_binary(cur)
            IN  IF decoded.ok
                THEN /\ cur' = decoded.bytes
                     /\ depth' = depth + 1
                     /\ pc' = "p1"
                     /\ UNCHANGED <<message, exc, history>>
                ELSE /\ exc' = "ValueError"
                     /\ Finish(None, "ValueError")
                     /\ UNCHANGED <<message, cur, depth>>
    /\ UNCHANGED <<payload, result, measure_queue, subsvars>>

-----------------------------------------------------------------------------
(* get_meter_message after the classification, lines 153-221. *)

\* the P1 branch without the test of is_valid
GateP1Unchecked(m) == m

\* lines 154-169: a P1 readout is returned if valid, else None
GateP1(m) == IF m.is_valid THEN m ELSE None

\* the frame branch without the test of the payload
GateFrameAnyValid(m) == IF m.is_valid THEN m ELSE None

\* lines 171-197: a frame is returned if it is valid and its payload is not
\* None; a valid frame without payload is logged as empty and, the branch
\* having no return, falls to the invalid-frame log and return None
GateFrame(m) == IF m.is_valid /\ m.has_payload THEN m ELSE None

\* lines 199-221: a JSON object is ignored; other payloads become a
\* DlmsMessage, hex strings decoded first (ok = FALSE is the ValueError of
\* the decoding)
Unframed(p) ==
    IF JsonLoadsIsDict(p) THEN [ok |-> TRUE, value |-> None]
    ELSE IF _is_hex_string(p)
         THEN LET decoded == _hex_payload_to_binary(p)
              IN  [ok |-> decoded.ok,
                   value |-> IF decoded.ok THEN DlmsMessage(decoded.bytes) ELSE None]
    ELSE [ok |-> TRUE, value |-> DlmsMessage(p)]

Gate ==
    /\ pc = "gate"
    /\ IF message # None
       THEN /\ result' = IF message.type = "P1" THEN GateP1(message)
                         ELSE GateFrame(message)
            /\ pc' = "put"
            /\ UNCHANGED <<hexcall, exc, history>>
       ELSE /\ hexcall' = IF JsonLoadsIsDict(payload) THEN hexcall
                          ELSE [made |-> TRUE, arg |-> payload,
                                ret |-> _is_hex_string(payload)]
            /\ IF Unframed(payload).ok
               THEN /\ result' = Unframed(payload).value
                    /\ pc' = "put"
                    /\ UNCHANGED <<exc, history>>
               ELSE /\ exc' = "ValueError"
                    /\ Finish(None, "ValueError")
                    /\ UNCHANGED result
    /\ UNCHANGED <<payload, cur, depth, trace, message, measure_queue, subsvars>>

-----------------------------------------------------------------------------
(* message_received, lines 102-120. *)

\* the queue with the message put in front
put_nowait_front(queue, m) == <<m>> \o queue

\* measure_queue.put_nowait(meter_message)
put_nowait(queue, m) == Append(queue, m)

\* lines 119-120: a message is put on the queue, None is dropped
Put ==
    /\ pc = "put"
    /\ measure_queue' = IF result # None THEN put_nowait(measure_queue, result)
                        ELSE measure_queue
    /\ Finish(result, "none")
    /\ UNCHANGED <<callvars, subsvars>>

\* the MQTT client runs the callback on the oldest dispatched message,
\* whether or not its topic is still subscribed; line 118 enters
\* get_meter_message and line 152 _try_read_meter_message
MessageReceived ==
    /\ pc = "idle"
    /\ inflight # <<>>
    /\ CallbackStart(Head(inflight).payload)
    /\ pc' = "p1"
    /\ inflight' = Tail(inflight)
    /\ UNCHANGED <<measure_queue, history, todo, subscribed, unsubscibers, handle,
                   unsub_calls, handle_calls, published>>

-----------------------------------------------------------------------------
(* async_setup_meter_mqtt_subscriptions, lines 122-141. *)

\* lines 125-130: one topic of the set is subscribed per await and its
\* unsubscribe callable appended; after the last one the handle is returned
Subscribe(t) ==
    /\ pc = "idle"
    /\ t \in todo
    /\ todo' = todo \ {t}
    /\ subscribed' = subscribed \cup {t}
    /\ unsubscibers' = Append(unsubscibers, t)
    /\ handle' = (todo' = {})
    /\ UNCHANGED <<pc, callvars, measure_queue, history, unsub_calls, handle_calls,
                   inflight, published>>

\* the MQTT client receives payload p on a subscribed topic and dispatches it
Publish(t, p) ==
    /\ pc = "idle"
    /\ t \in subscribed
    /\ published < MaxPublished
    /\ inflight' = Append(inflight, [topic |-> t, payload |-> p])
    /\ published' = published + 1
    /\ UNCHANGED <<pc, callvars, measure_queue, history, todo, subscribed,
                   unsubscibers, handle, unsub_calls, handle_calls>>

\* the loop leaving after its first unsubscriber
InvokedFirstOnly(list, live, raises) == SubSeq(list, 1, 1)

\* lines 138-139: the unsubscribers invoked by one run of the loop, in
\* order: all of them, or, if the MQTT client raises on a subscription
\* that was removed before, those up to the first such one
Invoked(list, live, raises) ==
    LET gone == {i \in 1..Len(list) : list[i] \notin live}
    IN  IF raises /\ gone # {}
        THEN SubSeq(list, 1, CHOOSE i \in gone : \A j \in gone : i <= j)
        ELSE list

\* lines 136-139: unsubscribe_mqtt invokes the unsubscribers; nothing
\* records that it ran before.  What the MQTT client does with a second
\* removal of a subscription (return or raise) is not fixed by this code.
UnsubscribeMqtt ==
    /\ pc = "idle"
    /\ handle
    /\ handle_calls < MaxTeardowns
    /\ \E raises \in BOOLEAN :
          LET called == Invoked(unsubscibers, subscribed, raises)
          IN  /\ unsub_calls' =
                    [t \in Topics |->
                        unsub_calls[t]
                            + Cardinality({i \in 1..Len(called) : called[i] = t})]
              /\ subscribed' = subscribed \ {called[i] : i \in 1..Len(called)}
    /\ handle_calls' = handle_calls + 1
    /\ UNCHANGED <<pc, callvars, measure_queue, history, todo, unsubscibers, handle,
                   inflight, published>>

-----------------------------------------------------------------------------
(* Specifications. *)

Callback == TryP1 \/ TryHdlc \/ TryHex \/ Gate \/ Put

Next ==
    \/ \E t \in Topics : Subscribe(t)
    \/ \E t \in Topics, p \in PublishedPayloads : Publish(t, p)
    \/ MessageReceived
    \/ Callback
    \/ UnsubscribeMqtt

\* the subscription manager with its callbacks
Spec == Init /\ [][Next]_vars

\* one run of the callback on each payload of Payloads
SpecClassify == InitClassify /\ [][Callback]_vars

-----------------------------------------------------------------------------
(* Properties. *)

\* get_meter_message has returned to message_received (line 118 is passed)
Returned == pc = "put"

\* the callback has ended, by return or by exception
Ended == pc = "idle" /\ history # <<>>

\* the frame between the flags of f
FrameOf(f) == HdlcFrame(SubSeq(f, 2, Len(f) - 1))

\* C1: no exception leaves message_received, whatever the payload, and
\* whenever _is_hex_string returned true the call of _hex_payload_to_binary
\* on the same bytes succeeds.
C1_NoExceptionPropagates ==
    /\ exc = "none"
    /\ \A i \in 1..Len(history) : history[i].exc = "none"
    /\ (hexcall.made /\ hexcall.ret) => _hex_payload_to_binary(hexcall.arg).ok

\* C2 as stated: an HDLC frame returned by the classifier is accepted if
\* and only if it is valid, with or without payload.
C2_AcceptedIffValid ==
    (Returned /\ message.type = "HDLC") =>
        result = IF message.is_valid THEN message ELSE None

\* C2 amended: an HDLC frame returned by the classifier is accepted if and
\* only if it is valid and its payload is not None; a valid frame without
\* payload and every invalid frame give None.
C2_AcceptedIffValidWithPayload ==
    (Returned /\ message.type = "HDLC") =>
        /\ (result # None) = (message.is_valid /\ message.has_payload)
        /\ result \in {message, None}

\* a valid frame without payload was classified and rejected
C2_EmptyFrameRejected ==
    /\ Returned
    /\ message.type = "HDLC"
    /\ message.is_valid
    /\ ~message.has_payload
    /\ result = None

\* C3 as stated: a valid P1 block is returned as a valid readout, and the
\* same block with one corrupted byte (the '/' kept) gives None.
C3_CorruptedP1Rejected ==
    Returned =>
        /\ payload \in ValidP1 => (result.type = "P1" /\ result.is_valid)
        /\ payload \in CorruptP1 => result = None

\* C3 amended: a valid P1 block is returned as a valid readout; the block
\* with one corrupted byte gives None if the readout still parses, and is
\* otherwise no P1 readout for the code: it goes on to the HDLC, hex and
\* unframed interpretations.
C3_ParsedP1AcceptedIffValid ==
    Returned =>
        /\ payload \in ValidP1 =>
              (result = DataReadout(payload) /\ result.is_valid)
        /\ (payload \in CorruptP1 /\ DataReadoutParses(payload)) => result = None
        /\ (payload \in CorruptP1 /\ ~DataReadoutParses(payload)) =>
              (message.type # "P1" /\ result.type # "P1")

\* a corrupted P1 block that still parses was rejected
C3_CorruptedRejected ==
    /\ Returned
    /\ payload \in CorruptP1
    /\ DataReadoutParses(payload)
    /\ message.type = "P1"
    /\ result = None

C5_UnframedIsJsonOrDlms ==
    ((Returned \/ Ended) /\ message = None) =>
        /\ exc = "none"
        /\ result = IF JsonLoadsIsDict(payload) THEN None
                    ELSE IF _is_hex_string(payload)
                         THEN DlmsMessage(_hex_payload_to_binary(payload).bytes)
                    ELSE DlmsMessage(payload)

\* C6: _is_hex_string returns true exactly for the byte strings of even
\* length made of hex digits only, the empty one included.
C6_HexStringIffEvenHexDigits ==
    hexcall.made =>
        hexcall.ret = (/\ Len(hexcall.arg) % 2 = 0
                       /\ \A i \in 1..Len(hexcall.arg) : IsHexDigit(hexcall.arg[i]))

\* C7 as stated: one classification hex-decodes at most once.
C7_AtMostOneDecode == depth <= 1

\* C7 amended: every hex-decode at least halves the bytes classified and
\* leaves at least one byte, so a classification of n bytes decodes at most
\* log2(n) times (and ends); a hex string of a hex string is decoded twice.
C7_EachDecodeHalves ==
    depth >= 1 => (Len(cur) >= 1 /\ Len(cur) * (2 ^ depth) <= Len(payload))

\* a payload was hex-decoded twice
C7_DecodedTwice == depth = 2

RECURSIVE Accepted(_)
\* the messages of the finished callbacks, in order
Accepted(h) ==
    IF h = <<>> THEN <<>>
    ELSE (IF Head(h).result # None THEN <<Head(h).result>> ELSE <<>>)
             \o Accepted(Tail(h))

\* C8: the queue holds the messages get_meter_message returned, one per
\* accepting callback, in the order the callbacks ran, and two callbacks on
\* the same payload end alike.
C8_QueueIsAcceptedInOrder ==
    /\ measure_queue = Accepted(history)
    /\ \A i, j \in 1..Len(history) :
          history[i].payload = history[j].payload =>
              (history[i].result = history[j].result /\ history[i].exc = history[j].exc)

\* two different messages were queued in the order of their callbacks, the
\* second by a callback that ran after the teardown
C8_QueuedAfterTeardown ==
    /\ Len(measure_queue) = 2
    /\ measure_queue[1] # measure_queue[2]
    /\ Len(history) = 2
    /\ measure_queue = <<history[1].result, history[2].result>>
    /\ history[2].teardowns >= 1

\* C9 as stated: no topic's unsubscribe callable is invoked more than once.
C9_UnsubscribedAtMostOnce == \A t \in Topics : unsub_calls[t] <= 1

\* C9 amended: the first invocation of the handle invokes every topic's
\* unsubscribe callable once and leaves no topic subscribed; every further
\* invocation runs the loop again, so the callable of the first topic of
\* the list has been invoked once per invocation of the handle, and the
\* others at least once and at most as often.
C9_EveryTeardownRunsTheLoop ==
    /\ handle_calls = 0 => \A t \in Topics : unsub_calls[t] = 0
    /\ handle_calls >= 1 =>
          /\ subscribed = {}
          /\ unsub_calls[unsubscibers[1]] = handle_calls
          /\ \A t \in Topics : unsub_calls[t] >= 1 /\ unsub_calls[t] <= handle_calls

\* the handle was invoked twice and a callback ran after that
C9_TornDownTwice ==
    /\ handle_calls = 2
    /\ \E t \in Topics : unsub_calls[t] = 2
    /\ \E i \in 1..Len(history) : history[i].teardowns = 2

\* C10: the P1 attempt is made only on bytes that start with '/'; the HDLC
\* attempt follows a failed or skipped P1 attempt on the same bytes, feeds
\* the leading flag only if the bytes do not start with one and the
\* trailing flag only if the bytes gave no frame, and returns the first
\* frame; the hex test follows an HDLC attempt on the same bytes that gave
\* no frame, and the decoded bytes are classified next; the result is None
\* exactly after a failed hex test.
C10_StrategiesInOrder ==
    /\ \A i \in 1..Len(trace) :
          LET e == trace[i]
          IN  /\ e.step = "p1" =>
                    /\ StartsWith(e.bytes, SLASH)
                    /\ (i > 1 => (trace[i - 1].step = "hex" /\ trace[i - 1].ok))
              /\ e.step = "hdlc" =>
                    /\ e.lead = ~StartsWith(e.bytes, FLAG_SEQUENCE)
                    /\ e.trail = (e.first = <<>>)
                    /\ (~e.trail => e.frames = e.first)
                    /\ e.ok = (e.frames # <<>>)
                    /\ IF StartsWith(e.bytes, SLASH)
                       THEN i > 1 /\ trace[i - 1] =
                               Step("p1", e.bytes, FALSE, FALSE, FALSE, <<>>, <<>>)
                       ELSE i > 1 => (trace[i - 1].step = "hex" /\ trace[i - 1].ok)
                    /\ (e.ok => i = Len(trace))
              /\ e.step = "hex" =>
                    /\ i > 1
                    /\ trace[i - 1].step = "hdlc"
                    /\ trace[i - 1].bytes = e.bytes
                    /\ ~trace[i - 1].ok
                    /\ e.ok = _is_hex_string(e.bytes)
                    /\ (~e.ok => i = Len(trace))
                    /\ (i < Len(trace) =>
                           trace[i + 1].bytes = _hex_payload_to_binary(e.bytes).bytes)
    /\ (pc \in {"gate", "put"}) =>
          LET e == trace[Len(trace)]
          IN  /\ message.type = "P1" => (e.step = "p1" /\ e.ok)
              /\ message.type = "HDLC" =>
                    (e.step = "hdlc" /\ e.ok /\ message = e.frames[1])
              /\ message = None => (e.step = "hex" /\ ~e.ok)

\* a hex string was decoded after the P1 and HDLC attempts on it failed, and
\* the decoded bytes gave two frames, of which the first was returned
C10_FirstOfTwoFrames ==
    /\ pc = "gate"
    /\ depth = 1
    /\ Len(trace[Len(trace)].frames) = 2
    /\ trace[Len(trace)].frames[1] # trace[Len(trace)].frames[2]
    /\ message = trace[Len(trace)].frames[1]

=============================================================================
